---- MODULE Spec2Model ----
(***************************************************************************)
(* CivicConnect issue lifecycle: the Express handlers of server.js over a  *)
(* MongoDB/Mongoose store, the seed script's nearest-authority assignment, *)
(* and the reopen operation the citizen UI calls.                          *)
(*                                                                         *)
(* Time is counted in hundredths of an hour, so that fractional hours such *)
(* as 23.52 h are representable.  Coordinates lie on one meridian, where   *)
(* the haversine distance is proportional to the latitude difference; a    *)
(* latitude is an integer number of grid steps of 100 m.                   *)
(*                                                                         *)
(* Store semantics (Mongoose): findById returns a snapshot; save() of a    *)
(* loaded document sends only the paths whose value differs from the       *)
(* loaded one; an array push is sent as $push (applied to the stored       *)
(* array, __v incremented, no version condition); assigning a whole array  *)
(* is sent as $set with the condition __v = loaded __v and fails with a    *)
(* VersionError otherwise; findByIdAndUpdate is one atomic $set that       *)
(* neither validates enums nor touches __v.                                *)
(***************************************************************************)
EXTENDS Integers, Sequences, FiniteSets, TLC

VARIABLES issues, active, now, req, budget, last, okUp, okDown, voters,
          refresh, calc, client, trip

vars == <<issues, active, now, req, budget, last, okUp, okDown, voters,
          refresh, calc, client, trip>>

\* ---------------------------------------------------------------- bounds
MaxIssues == 1
MaxInflight == 2
MaxRequests == 2
MaxVoteRequests == 4
MaxTicks == 1

IssueIds == 1..MaxIssues
Slots == 1..MaxInflight

\* one clock step is 24 hours
Hours(h) == h * 100
TickStep == Hours(24)

\* ---------------------------------------------------------------- users
Citizens == {"c1", "c2"}
Admins == {"adm"}
\* User.find scan order; rita is an authority account without a stored location
AuthOrder == <<"alice", "bob", "rita", "carla">>
Authorities == {AuthOrder[k] : k \in 1..Len(AuthOrder)}
Users == Citizens \cup Admins \cup Authorities
NoUser == "nobody"
NoDate == -1

userRole(u) ==
  IF u \in Admins THEN "admin"
  ELSE IF u \in Authorities THEN "authority"
  ELSE "citizen"

userDepartment(u) ==
  CASE u = "alice" -> "Public Works"
    [] u = "bob" -> "Public Works"
    [] u = "carla" -> "Sanitation"
    [] u = "rita" -> "Sanitation"
    [] OTHER -> ""

\* location.coordinates holds two numbers
hasCoordinates(u) == u \in {"alice", "bob", "carla"}

\* latitude of the authority's last known position, in grid steps
userLatitude(u) ==
  CASE u = "alice" -> 0
    [] u = "bob" -> 4
    [] u = "carla" -> 1
    [] OTHER -> 0

\* ---------------------------------------------------------------- domain
Priorities == {"low", "medium", "high"}
Statuses == {"pending", "in-progress", "resolved", "rejected"}
Terminal == {"resolved", "rejected"}

departmentMapping(category) ==
  CASE category = "pothole" -> "Public Works"
    [] category = "streetlight" -> "Public Works"
    [] category = "trash" -> "Sanitation"
    [] category = "graffiti" -> "Parks & Recreation"
    [] category = "traffic" -> "Traffic Management"
    [] category = "drainage" -> "Public Works"
    [] category = "other" -> "General Services"
    [] OTHER -> ""

Min(a, b) == IF a < b THEN a ELSE b
Max(a, b) == IF a > b THEN a ELSE b
Abs(a) == IF a < 0 THEN -a ELSE a

SeqToSet(s) == {s[k] : k \in 1..Len(s)}

\* a membership test that looks at the first element only
includes_first(s, x) == s # <<>> /\ Head(s) = x

includes(s, x) == x \in SeqToSet(s)

RECURSIVE filterOut(_, _)
filterOut(s, x) ==
  IF s = <<>> THEN <<>>
  ELSE IF Head(s) = x THEN filterOut(Tail(s), x)
  ELSE <<Head(s)>> \o filterOut(Tail(s), x)

\* ------------------------------------------------------ deadline policy
baseHours(priority) ==
  CASE priority = "high" -> 24
    [] priority = "medium" -> 72
    [] priority = "low" -> 168
    [] OTHER -> 72

\* the policy without the 50 % cap on the reduction
finalHours_uncapped(upvotes, priority) ==
  Max(baseHours(priority) * (100 - upvotes * 2), Hours(4))

\* hundredths of an hour: baseTime * (1 - reduction/100), floored at 4 h
finalHours(upvotes, priority) ==
  LET upvoteReduction == Min(upvotes * 2, 50)
      adjustedHours == baseHours(priority) * (100 - upvoteReduction)
  IN  Max(adjustedHours, Hours(4))

\* Date.setHours truncates its argument to a whole number of hours; the
\* server's local clock is taken to have no daylight-saving shift in between
calculateTargetResolutionTime_subtract(upvotes, priority, createdAt) ==
  createdAt - Hours(finalHours(upvotes, priority) \div 100)

calculateTargetResolutionTime(upvotes, priority, createdAt) ==
  createdAt + Hours(finalHours(upvotes, priority) \div 100)

\* the evaluator with the deadline instant itself counted as late
checkIfOverdue_atOrAfter(targetResolutionTime, status, clock) ==
  IF status = "resolved" \/ status = "rejected" THEN FALSE
  ELSE clock >= targetResolutionTime

checkIfOverdue(targetResolutionTime, status, clock) ==
  IF status = "resolved" \/ status = "rejected" THEN FALSE
  ELSE clock > targetResolutionTime

\* ------------------------------------------------ nearest authority
\* meters between two points of the meridian
haversineDistance(lat1, lat2) == Abs(lat2 - lat1) * 100

\* the scan with a candidate at equal distance replacing the one found before
RECURSIVE nearestFrom_lastOfEqual(_, _, _, _)
nearestFrom_lastOfEqual(auths, latitude, nearest, best) ==
  IF auths = <<>> THEN nearest
  ELSE LET auth == Head(auths)
           d == haversineDistance(latitude, userLatitude(auth))
       IN  IF hasCoordinates(auth) /\ (best = -1 \/ d <= best)
           THEN nearestFrom_lastOfEqual(Tail(auths), latitude, auth, d)
           ELSE nearestFrom_lastOfEqual(Tail(auths), latitude, nearest, best)

RECURSIVE nearestFrom(_, _, _, _)
nearestFrom(auths, latitude, nearest, best) ==
  IF auths = <<>> THEN nearest
  ELSE LET auth == Head(auths)
           d == haversineDistance(latitude, userLatitude(auth))
       IN  IF ~hasCoordinates(auth)
           THEN nearestFrom(Tail(auths), latitude, nearest, best)
           ELSE IF best = -1 \/ d < best
           THEN nearestFrom(Tail(auths), latitude, auth, d)
           ELSE nearestFrom(Tail(auths), latitude, nearest, best)

RECURSIVE findAuthorities(_, _, _)
findAuthorities(order, department, act) ==
  IF order = <<>> THEN <<>>
  ELSE LET u == Head(order)
           rest == findAuthorities(Tail(order), department, act)
       IN  IF /\ userRole(u) = "authority"
              /\ u \in act
              /\ (department # "" => userDepartment(u) = department)
           THEN <<u>> \o rest
           ELSE rest

\* the resolver without its department filter
findNearestAuthority_anyDepartment(department, latitude, act) ==
  nearestFrom(findAuthorities(AuthOrder, "", act), latitude, NoUser, -1)

findNearestAuthority(department, latitude, act) ==
  nearestFrom(findAuthorities(AuthOrder, department, act), latitude, NoUser, -1)

\* ---------------------------------------------------------------- store
NoIssue ==
  [exists |-> FALSE, category |-> "", priority |-> "", status |-> "",
   latitude |-> 0, reporter |-> NoUser, department |-> "", assignee |-> NoUser,
   comments |-> 0, upvotes |-> 0, upvotedBy |-> <<>>,
   targetResolutionTime |-> NoDate, isOverdue |-> FALSE,
   estimatedResolution |-> NoDate, resolvedAt |-> NoDate,
   createdAt |-> NoDate, version |-> 0]

IdleReq == [pc |-> "idle", op |-> "none", actor |-> NoUser, id |-> 0,
            orig |-> NoIssue, doc |-> NoIssue]

NoLast == [op |-> "none", actor |-> NoUser, id |-> 0, code |-> 0]

\* the batch overdue refresh in flight: the issues its query returned and are
\* still to be visited, the write it is waiting for, and its running count.
\* startAt and startBudget hold the time and the number of requests admitted
\* when it started; clean tells that it ran with no other request in flight,
\* none admitted and no time elapsed, again that it started right after a
\* clean run, at the same time and with no request in between
NoPending == [id |-> 0, isOverdue |-> FALSE]
NoRefresh == [pc |-> "idle", actor |-> NoUser, snap |-> <<>>, pending |-> NoPending,
              updatedCount |-> 0, startAt |-> NoDate, startBudget |-> 0,
              clean |-> FALSE, again |-> FALSE]

\* one evaluation of a pure function: its arguments and its result
NoDuplicate == [id |-> 0, distanceMeters |-> -1]
NoCalc ==
  [fn |-> "none", done |-> FALSE,
   priority |-> "", upvotes |-> 0, more |-> 0, createdAt |-> 0,
   status |-> "", target |-> 0, clock |-> 0,
   department |-> "", latitude |-> 0, act |-> {},
   category |-> "", threshold |-> 0, pool |-> <<>>,
   deadline |-> NoDate, deadlineMore |-> NoDate, overdue |-> FALSE,
   nearest |-> NoUser, duplicate |-> NoDuplicate,
   flag |-> FALSE, marked |-> FALSE]

\* one browser session: the position of IssueForm.handleSubmit with what it
\* has learnt and decided so far, and the last answers to its read requests.
\* upvoteStatus is err.response.status of the form's upvote (200 when it went
\* through, 0 when no response came), alerts the ids GET /alerts/overdue gave
NoRead == [id |-> 0, isOverdue |-> FALSE, status |-> "", targetResolutionTime |-> NoDate,
           at |-> NoDate]
NoClient ==
  [pc |-> "idle", actor |-> NoUser, checked |-> FALSE, duplicate |-> 0,
   chooseUpvote |-> FALSE, slot |-> 0, upvoteStatus |-> -1, proceed |-> FALSE,
   created |-> FALSE, read |-> NoRead, alerts |-> {}, alertsAt |-> NoDate]

\* history of one request, or of an upvote directly followed by the same
\* actor's un-upvote: the issue as stored when it was admitted, and how far
\* it has got
NoTrip == [phase |-> "none", actor |-> NoUser, id |-> 0, slot |-> 0, before |-> NoIssue]

Response(op, actor, id, code) == [op |-> op, actor |-> actor, id |-> id, code |-> code]

\* new Issue({...}) of POST /api/issues with the schema defaults
newIssue(category, priority, latitude, reporter, clock) ==
  [NoIssue EXCEPT !.exists = TRUE, !.category = category, !.priority = priority,
     !.status = "pending", !.latitude = latitude, !.reporter = reporter,
     !.department = departmentMapping(category), !.createdAt = clock]

FreeIds == {i \in IssueIds : ~issues[i].exists}

\* ------------------------------------------------------ Mongoose save()
\* $set of the scalar paths whose in-memory value differs from the loaded one
setModified(cur, orig, doc) ==
  [cur EXCEPT
     !.upvotes = IF doc.upvotes # orig.upvotes THEN doc.upvotes ELSE cur.upvotes,
     !.targetResolutionTime =
        IF doc.targetResolutionTime # orig.targetResolutionTime
        THEN doc.targetResolutionTime ELSE cur.targetResolutionTime,
     !.isOverdue = IF doc.isOverdue # orig.isOverdue THEN doc.isOverdue ELSE cur.isOverdue]

\* save() after upvotedBy.push(userId): $push, $inc __v, no version condition
savePush(cur, orig, doc, userId) ==
  [setModified(cur, orig, doc) EXCEPT
     !.upvotedBy = Append(cur.upvotedBy, userId),
     !.version = cur.version + 1]

\* save() after upvotedBy = [...]: $set of the array, $inc __v, where __v = loaded
saveSetArray(cur, orig, doc) ==
  [setModified(cur, orig, doc) EXCEPT
     !.upvotedBy = doc.upvotedBy,
     !.version = cur.version + 1]

\* ---------------------------------------------------------------- seed
\* first demo issue of seedDatabase after its assignment loop, seeded at time 0
SeedIssue ==
  LET base == [newIssue("pothole", "high", 1, "c1", 0) EXCEPT !.upvotes = 10]
      nearest == findNearestAuthority(base.department, base.latitude, Authorities)
      target == calculateTargetResolutionTime(base.upvotes, base.priority, base.createdAt)
  IN  [base EXCEPT !.assignee = nearest,
                   !.targetResolutionTime = target,
                   !.isOverdue = (0 > target /\ base.status \notin Terminal)]

EmptyStore == [i \in IssueIds |-> NoIssue]
SeededStore == [i \in IssueIds |-> IF i = 1 THEN SeedIssue ELSE NoIssue]

InitRest ==
  /\ active = Authorities
  /\ now = 0
  /\ req = [s \in Slots |-> IdleReq]
  /\ budget = 0
  /\ last = NoLast
  /\ okUp = [i \in IssueIds |-> 0]
  /\ okDown = [i \in IssueIds |-> 0]
  /\ voters = [i \in IssueIds |-> {}]
  /\ refresh = NoRefresh
  /\ client = NoClient
  /\ trip = NoTrip

\* server started on an empty database
InitEmpty == issues = EmptyStore /\ InitRest /\ calc = NoCalc

\* server started on a seeded database
InitSeeded == issues = SeededStore /\ InitRest /\ calc = NoCalc

\* server started on an empty or on a seeded database
Init == issues \in {EmptyStore, SeededStore} /\ InitRest /\ calc = NoCalc

\* ---------------------------------------------------------------- clock
Tick ==
  /\ now < MaxTicks * TickStep
  /\ now' = now + TickStep
  /\ UNCHANGED <<issues, active, req, budget, last, okUp, okDown, voters, refresh, calc>>

\* ------------------------------------------------- POST /api/issues
Create(a, category, priority, latitude) ==
  /\ FreeIds # {}
  /\ LET id == CHOOSE i \in FreeIds : \A j \in FreeIds : i <= j
         issue == newIssue(category, priority, latitude, a, now)
         saved == [issue EXCEPT !.targetResolutionTime =
                     calculateTargetResolutionTime(0, priority, issue.createdAt)]
     IN  /\ issues' = [issues EXCEPT ![id] = saved]
         /\ last' = Response("create", a, id, 201)
  /\ budget' = budget + 1
  /\ UNCHANGED <<active, now, req, okUp, okDown, voters, refresh, calc>>

\* ------------------------------------- POST /api/issues/:id/upvote
\* await Issue.findById
UpvoteFind(s, a, i) ==
  /\ req[s].pc = "idle"
  /\ budget' = budget + 1
  /\ IF issues[i].exists
     THEN /\ req' = [req EXCEPT ![s] = [pc |-> "loaded", op |-> "upvote", actor |-> a,
                                        id |-> i, orig |-> issues[i], doc |-> issues[i]]]
          /\ UNCHANGED last
     ELSE /\ last' = Response("upvote", a, i, 404)
          /\ UNCHANGED req
  /\ UNCHANGED <<issues, active, now, okUp, okDown, voters, refresh, calc>>

\* includes check, push, increment, recompute deadline and overdue
UpvoteModify(s) ==
  /\ req[s].pc = "loaded"
  /\ req[s].op = "upvote"
  /\ LET r == req[s]
         issue == r.doc
         userId == r.actor
     IN  IF includes(issue.upvotedBy, userId)
         THEN /\ req' = [req EXCEPT ![s] = IdleReq]
              /\ last' = Response("upvote", userId, r.id, 400)
         ELSE LET upvotes == issue.upvotes + 1
                  target == calculateTargetResolutionTime(upvotes, issue.priority, issue.createdAt)
              IN  /\ req' = [req EXCEPT ![s].pc = "saving",
                                        ![s].doc = [issue EXCEPT
                                           !.upvotedBy = Append(issue.upvotedBy, userId),
                                           !.upvotes = upvotes,
                                           !.targetResolutionTime = target,
                                           !.isOverdue = checkIfOverdue(target, issue.status, now)]]
                  /\ UNCHANGED last
  /\ UNCHANGED <<issues, active, now, budget, okUp, okDown, voters, refresh, calc>>

\* await issue.save(); res.json
UpvoteSave(s) ==
  /\ req[s].pc = "saving"
  /\ req[s].op = "upvote"
  /\ LET r == req[s]
     IN  /\ issues' = [issues EXCEPT ![r.id] = savePush(issues[r.id], r.orig, r.doc, r.actor)]
         /\ last' = Response("upvote", r.actor, r.id, 200)
         /\ okUp' = [okUp EXCEPT ![r.id] = @ + 1]
         /\ voters' = [voters EXCEPT ![r.id] = @ \cup {r.actor}]
  /\ req' = [req EXCEPT ![s] = IdleReq]
  /\ UNCHANGED <<active, now, budget, okDown, refresh, calc>>

\* ----------------------------------- DELETE /api/issues/:id/upvote
UnupvoteFind(s, a, i) ==
  /\ req[s].pc = "idle"
  /\ budget' = budget + 1
  /\ IF issues[i].exists
     THEN /\ req' = [req EXCEPT ![s] = [pc |-> "loaded", op |-> "unupvote", actor |-> a,
                                        id |-> i, orig |-> issues[i], doc |-> issues[i]]]
          /\ UNCHANGED last
     ELSE /\ last' = Response("unupvote", a, i, 404)
          /\ UNCHANGED req
  /\ UNCHANGED <<issues, active, now, okUp, okDown, voters, refresh, calc>>

UnupvoteModify(s) ==
  /\ req[s].pc = "loaded"
  /\ req[s].op = "unupvote"
  /\ LET r == req[s]
         issue == r.doc
         userId == r.actor
     IN  IF ~includes(issue.upvotedBy, userId)
         THEN /\ req' = [req EXCEPT ![s] = IdleReq]
              /\ last' = Response("unupvote", userId, r.id, 400)
         ELSE LET upvotes == Max(0, issue.upvotes - 1)
                  target == calculateTargetResolutionTime(upvotes, issue.priority, issue.createdAt)
              IN  /\ req' = [req EXCEPT ![s].pc = "saving",
                                        ![s].doc = [issue EXCEPT
                                           !.upvotedBy = filterOut(issue.upvotedBy, userId),
                                           !.upvotes = upvotes,
                                           !.targetResolutionTime = target,
                                           !.isOverdue = checkIfOverdue(target, issue.status, now)]]
                  /\ UNCHANGED last
  /\ UNCHANGED <<issues, active, now, budget, okUp, okDown, voters, refresh, calc>>

\* await issue.save(): VersionError (caught, 500) when __v moved since the load
UnupvoteSave(s) ==
  /\ req[s].pc = "saving"
  /\ req[s].op = "unupvote"
  /\ LET r == req[s]
     IN  IF issues[r.id].version = r.orig.version
         THEN /\ issues' = [issues EXCEPT ![r.id] = saveSetArray(issues[r.id], r.orig, r.doc)]
              /\ last' = Response("unupvote", r.actor, r.id, 200)
              /\ okDown' = [okDown EXCEPT ![r.id] = @ + 1]
              /\ voters' = [voters EXCEPT ![r.id] = @ \ {r.actor}]
         ELSE /\ last' = Response("unupvote", r.actor, r.id, 500)
              /\ UNCHANGED <<issues, okDown, voters>>
  /\ req' = [req EXCEPT ![s] = IdleReq]
  /\ UNCHANGED <<active, now, budget, okUp, refresh, calc>>

\* ------------------------------------------ PUT /api/issues/:id/status
requireAdmin(a) == userRole(a) = "admin"

StatusInputs == Statuses \cup {"bogus"}

\* updateData with resolvedAt stamped whatever the new status is
applyUpdateData_stampAlways(cur, status, estimatedResolution, clock) ==
  [cur EXCEPT
     !.status = status,
     !.resolvedAt = clock,
     !.estimatedResolution =
        IF estimatedResolution # NoDate THEN estimatedResolution ELSE cur.estimatedResolution]

\* updateData with createdAt stamped in place of updatedAt
applyUpdateData_restamp(cur, status, estimatedResolution, clock) ==
  [cur EXCEPT
     !.status = status,
     !.createdAt = clock,
     !.resolvedAt = IF status = "resolved" THEN clock ELSE cur.resolvedAt,
     !.estimatedResolution =
        IF estimatedResolution # NoDate THEN estimatedResolution ELSE cur.estimatedResolution]

\* updateData with the estimated resolution taken as the new deadline
applyUpdateData_moveDeadline(cur, status, estimatedResolution, clock) ==
  [cur EXCEPT
     !.status = status,
     !.resolvedAt = IF status = "resolved" THEN clock ELSE cur.resolvedAt,
     !.targetResolutionTime =
        IF estimatedResolution # NoDate THEN estimatedResolution
        ELSE cur.targetResolutionTime,
     !.estimatedResolution =
        IF estimatedResolution # NoDate THEN estimatedResolution ELSE cur.estimatedResolution]

\* updateData applied by findByIdAndUpdate in one atomic $set
applyUpdateData(cur, status, estimatedResolution, clock) ==
  [cur EXCEPT
     !.status = status,
     !.resolvedAt = IF status = "resolved" THEN clock ELSE cur.resolvedAt,
     !.estimatedResolution =
        IF estimatedResolution # NoDate THEN estimatedResolution ELSE cur.estimatedResolution]

\* requireAdmin, findByIdAndUpdate, and the response when no comment is given
StatusUpdate(s, a, i, status, estimatedResolution, comment) ==
  /\ req[s].pc = "idle"
  /\ budget' = budget + 1
  /\ IF ~requireAdmin(a)
     THEN /\ last' = Response("status", a, i, 403)
          /\ UNCHANGED <<issues, req>>
     ELSE IF ~issues[i].exists
     THEN /\ last' = Response("status", a, i, 404)
          /\ UNCHANGED <<issues, req>>
     ELSE LET issue == applyUpdateData(issues[i], status, estimatedResolution, now)
          IN  /\ issues' = [issues EXCEPT ![i] = issue]
              /\ IF comment
                 THEN /\ req' = [req EXCEPT ![s] = [pc |-> "comment", op |-> "status",
                                   actor |-> a, id |-> i, orig |-> issue, doc |-> issue]]
                      /\ UNCHANGED last
                 ELSE /\ last' = Response("status", a, i, 200)
                      /\ UNCHANGED req
  /\ UNCHANGED <<active, now, okUp, okDown, voters, refresh, calc>>

\* issue.comments.push(...); await issue.save(): $push, $inc __v
StatusCommentSave(s) ==
  /\ req[s].pc = "comment"
  /\ LET r == req[s]
     IN  /\ issues' = [issues EXCEPT ![r.id].comments = @ + 1, ![r.id].version = @ + 1]
         /\ last' = Response("status", r.actor, r.id, 200)
  /\ req' = [req EXCEPT ![s] = IdleReq]
  /\ UNCHANGED <<active, now, budget, okUp, okDown, voters, refresh, calc>>

\* issue.save() of the comment rejects (store error): caught, answered 500
StatusCommentSaveFails(s) ==
  /\ req[s].pc = "comment"
  /\ last' = Response("status", req[s].actor, req[s].id, 500)
  /\ req' = [req EXCEPT ![s] = IdleReq]
  /\ UNCHANGED <<issues, active, now, budget, okUp, okDown, voters, refresh, calc>>

\* --------------------------------- POST /api/issues/:id/comments
\* findById, comments.push, save(): $push, $inc __v
AddComment(a, i) ==
  /\ budget' = budget + 1
  /\ IF ~issues[i].exists
     THEN /\ last' = Response("comment", a, i, 404)
          /\ UNCHANGED issues
     ELSE IF userRole(a) = "citizen" /\ issues[i].reporter # a
     THEN /\ last' = Response("comment", a, i, 403)
          /\ UNCHANGED issues
     ELSE /\ issues' = [issues EXCEPT ![i].comments = @ + 1, ![i].version = @ + 1]
          /\ last' = Response("comment", a, i, 200)
  /\ UNCHANGED <<active, now, req, okUp, okDown, voters, refresh, calc>>

\* --------------------------------------- POST /api/issues/:id/reopen
\* only from resolved/rejected and only by the original reporter
reopenAllowed_anyActor(issue, actorId) == issue.status \in Terminal

reopenAllowed(issue, actorId) ==
  issue.status \in Terminal /\ actorId = issue.reporter

Reopen(a, i) ==
  /\ issues[i].exists
  /\ budget' = budget + 1
  /\ IF reopenAllowed(issues[i], a)
     THEN /\ issues' = [issues EXCEPT
                 ![i].status = "pending",
                 ![i].resolvedAt = NoDate,
                 ![i].assignee = findNearestAuthority(issues[i].department,
                                                      issues[i].latitude, active)]
          /\ last' = Response("reopen", a, i, 200)
     ELSE /\ last' = Response("reopen", a, i, 409)
          /\ UNCHANGED issues
  /\ UNCHANGED <<active, now, req, okUp, okDown, voters, refresh, calc>>

\* administrative activation / deactivation of an authority account
SetActive(u) ==
  /\ budget' = budget + 1
  /\ active' = IF u \in active THEN active \ {u} ELSE active \cup {u}
  /\ UNCHANGED <<issues, now, req, last, okUp, okDown, voters, refresh, calc>>

\* ------------------------------------- POST /api/issues (request body)
\* the handler reads category, priority and the coordinates from the body and
\* nothing else; a priority outside the schema's enum fails validation in save()
\* the handler taking status and upvotes from the body as well
Submit_trustsBody(a, body) ==
  /\ body.priority \in Priorities
  /\ FreeIds # {}
  /\ LET id == CHOOSE i \in FreeIds : \A j \in FreeIds : i <= j
         issue == newIssue(body.category, body.priority, body.latitude, a, now)
     IN  /\ issues' = [issues EXCEPT ![id] =
                         [issue EXCEPT !.status = body.status, !.upvotes = body.upvotes,
                                       !.targetResolutionTime =
                                          calculateTargetResolutionTime(0, body.priority, now)]]
         /\ last' = Response("create", a, id, 201)
  /\ budget' = budget + 1
  /\ UNCHANGED <<active, now, req, okUp, okDown, voters, refresh, calc>>

Submit(a, body) ==
  IF body.priority \in Priorities
  THEN Create(a, body.category, body.priority, body.latitude)
  ELSE /\ last' = Response("create", a, 0, 500)
       /\ budget' = budget + 1
       /\ UNCHANGED <<issues, active, now, req, okUp, okDown, voters, refresh, calc>>

\* ------------------------------------ POST /api/issues/update-overdue
AllIdle == \A s \in Slots : req[s].pc = "idle"

\* Issue.find({status: {$nin: [resolved, rejected]}, targetResolutionTime: {$exists: true}})
RECURSIVE findOpen(_, _)
findOpen(store, i) ==
  IF i > MaxIssues THEN <<>>
  ELSE IF /\ store[i].exists
          /\ store[i].status \notin Terminal
          /\ store[i].targetResolutionTime # NoDate
  THEN <<[id |-> i, doc |-> store[i]]>> \o findOpen(store, i + 1)
  ELSE findOpen(store, i + 1)

\* issue.isOverdue !== isOverdue, with the loop's write on every visit instead
flagDiffers_always(doc, isOverdue) == TRUE

flagDiffers(doc, isOverdue) == doc.isOverdue # isOverdue

\* the loop passes over the issues whose flag is already right
RECURSIVE skipUnchanged(_, _)
skipUnchanged(snap, clock) ==
  IF snap = <<>> THEN <<>>
  ELSE LET doc == Head(snap).doc
           isOverdue == checkIfOverdue(doc.targetResolutionTime, doc.status, clock)
       IN  IF flagDiffers(doc, isOverdue) THEN snap ELSE skipUnchanged(Tail(snap), clock)

\* requireAdmin; await Issue.find
RefreshFind(a) ==
  /\ refresh.pc = "idle"
  /\ budget' = budget + 1
  /\ IF ~requireAdmin(a)
     THEN /\ last' = Response("refresh", a, 0, 403)
          /\ UNCHANGED refresh
     ELSE /\ refresh' = [refresh EXCEPT
                 !.pc = "found", !.actor = a, !.snap = findOpen(issues, 1),
                 !.updatedCount = 0,
                 !.startAt = now, !.startBudget = budget + 1, !.clean = AllIdle,
                 !.again = /\ refresh.clean
                           /\ AllIdle
                           /\ refresh.startAt = now
                           /\ refresh.startBudget = budget]
          /\ UNCHANGED last
  /\ UNCHANGED <<issues, active, now, req, okUp, okDown, voters, calc>>

\* the loop up to its next issue.save(), or to res.json when none is left
RefreshScan ==
  /\ refresh.pc = "found"
  /\ LET rest == skipUnchanged(refresh.snap, now)
     IN  IF rest = <<>>
         THEN /\ refresh' = [refresh EXCEPT
                     !.pc = "idle", !.snap = <<>>,
                     !.clean = /\ refresh.clean
                               /\ AllIdle
                               /\ refresh.startAt = now
                               /\ refresh.startBudget = budget]
              /\ last' = Response("refresh", refresh.actor, 0, 200)
         ELSE LET doc == Head(rest).doc
                  isOverdue == checkIfOverdue(doc.targetResolutionTime, doc.status, now)
              IN  /\ refresh' = [refresh EXCEPT
                        !.pc = "saving", !.snap = Tail(rest),
                        !.pending = [id |-> Head(rest).id, isOverdue |-> isOverdue]]
                  /\ UNCHANGED last
  /\ UNCHANGED <<issues, active, now, req, budget, okUp, okDown, voters, calc>>

\* await issue.save(): $set of isOverdue alone; updatedCount++ follows it
RefreshSave ==
  /\ refresh.pc = "saving"
  /\ issues' = [issues EXCEPT ![refresh.pending.id].isOverdue = refresh.pending.isOverdue]
  /\ refresh' = [refresh EXCEPT !.pc = "found", !.pending = NoPending,
                                !.updatedCount = @ + 1]
  /\ UNCHANGED <<active, now, req, budget, last, okUp, okDown, voters, calc>>

\* ------------------------------------------- GET /api/issues/duplicates
\* pool lists the existing issues in creation order, the most recent last; a
\* candidate has the category asked for, is not resolved or rejected and lies
\* within the threshold; the nearest wins, the later created among equals
RECURSIVE scanDuplicates(_, _, _, _, _, _)
scanDuplicates(pool, k, category, latitude, thresholdMeters, best) ==
  IF k > Len(pool) THEN best
  ELSE LET d == haversineDistance(latitude, pool[k].latitude)
       IN  IF /\ pool[k].category = category
              /\ pool[k].status \notin Terminal
              /\ d <= thresholdMeters
              /\ (best.id = 0 \/ d <= best.distanceMeters)
           THEN scanDuplicates(pool, k + 1, category, latitude, thresholdMeters,
                               [id |-> k, distanceMeters |-> d])
           ELSE scanDuplicates(pool, k + 1, category, latitude, thresholdMeters, best)

\* the detector without its category filter
findDuplicate_anyCategory(category, latitude, thresholdMeters, pool) ==
  scanDuplicates([k \in 1..Len(pool) |-> [pool[k] EXCEPT !.category = category]],
                 1, category, latitude, thresholdMeters, NoDuplicate)

findDuplicate(category, latitude, thresholdMeters, pool) ==
  scanDuplicates(pool, 1, category, latitude, thresholdMeters, NoDuplicate)

\* ------------------------------------------- single function evaluations
MaxUpvotes == 27
MaxLatitude == 4
MaxPool == 2

PriorityInputs == Priorities \cup {"urgent"}
UpvoteInputs == 0..MaxUpvotes \cup {100}
DateInputs == {0, Hours(4), Hours(24)}
DepartmentInputs == {"", "Public Works", "Sanitation", "Parks & Recreation"}
PoolItems == [category : {"pothole", "trash"}, latitude : {0, 2, 11},
              status : {"pending", "resolved"}]
Pools == UNION {[1..n -> PoolItems] : n \in 0..MaxPool}
ThresholdInputs == {100, 300, 2000}

DeadlineInputs ==
  {[NoCalc EXCEPT !.fn = "deadline", !.priority = p, !.upvotes = u, !.more = m,
                  !.createdAt = t] :
     p \in PriorityInputs, u \in UpvoteInputs, m \in UpvoteInputs, t \in {0, 150}}
OverdueInputs ==
  {[NoCalc EXCEPT !.fn = "overdue", !.status = st, !.target = t, !.clock = c] :
     st \in StatusInputs, t \in DateInputs, c \in DateInputs}
ResolverInputs ==
  {[NoCalc EXCEPT !.fn = "nearest", !.department = d, !.latitude = l, !.act = a] :
     d \in DepartmentInputs, l \in 0..MaxLatitude, a \in SUBSET Authorities}
DetectorInputs ==
  {[NoCalc EXCEPT !.fn = "duplicate", !.category = c, !.latitude = 1,
                  !.threshold = th, !.pool = pl] :
     c \in {"pothole", "trash"}, th \in ThresholdInputs, pl \in Pools}

\* the props of one TimerDisplay and the browser's clock at its updateTimer
TimerInputs ==
  {[NoCalc EXCEPT !.fn = "timer", !.status = st, !.target = t, !.clock = c, !.flag = f] :
     st \in Statuses, t \in DateInputs \cup {NoDate}, c \in DateInputs, f \in BOOLEAN}

InitPure ==
  /\ issues = EmptyStore
  /\ InitRest
  /\ calc \in DeadlineInputs \cup OverdueInputs \cup ResolverInputs \cup DetectorInputs
               \cup TimerInputs

Evaluate(fn, result) ==
  /\ calc.fn = fn
  /\ ~calc.done
  /\ calc' = [result EXCEPT !.done = TRUE]
  /\ UNCHANGED <<issues, active, now, req, budget, last, okUp, okDown, voters, refresh>>

ApplyDeadline ==
  Evaluate("deadline",
    [calc EXCEPT
       !.deadline = calculateTargetResolutionTime(calc.upvotes, calc.priority, calc.createdAt),
       !.deadlineMore = calculateTargetResolutionTime(calc.more, calc.priority, calc.createdAt)])

ApplyOverdue ==
  Evaluate("overdue",
    [calc EXCEPT !.overdue = checkIfOverdue(calc.target, calc.status, calc.clock)])

ApplyResolver ==
  Evaluate("nearest",
    [calc EXCEPT !.nearest = findNearestAuthority(calc.department, calc.latitude, calc.act)])

ApplyDetector ==
  Evaluate("duplicate",
    [calc EXCEPT !.duplicate =
       findDuplicate(calc.category, calc.latitude, calc.threshold, calc.pool)])

\* ------------------------------------------------- TimerDisplay (App.js)
\* whether the component renders its OVERDUE badge after updateTimer has run:
\* nothing is rendered without a deadline or for a resolved or rejected issue
TimerDisplay(targetResolutionTime, isOverdue, status, clock) ==
  IF targetResolutionTime = NoDate \/ status = "resolved" \/ status = "rejected"
  THEN FALSE
  ELSE LET diff == targetResolutionTime - clock
           isExpired == diff <= 0
       IN  isExpired \/ isOverdue

ApplyTimer ==
  Evaluate("timer",
    [calc EXCEPT !.marked = TimerDisplay(calc.target, calc.flag, calc.status, calc.clock)])

\* ------------------------------------------- IssueForm.handleSubmit (App.js)
FormBody == [category |-> "pothole", priority |-> "high", latitude |-> 1,
             status |-> "pending", upvotes |-> 0]
FormThreshold == 300

\* the stored issues in creation order
storePool == [k \in 1..Cardinality({i \in IssueIds : issues[i].exists}) |-> issues[k]]

\* where handleSubmit goes after its upvote request with any failure but the
\* already-upvoted one ending the submission
afterUpvote_failureStops(status, proceed) ==
  IF status = 400 /\ proceed THEN "create" ELSE "done"

\* where handleSubmit goes after its upvote request: return on success, ask
\* on 400 and return unless the reporter proceeds, fall through on any other
\* failure
afterUpvote(status, proceed) ==
  IF status = 200 THEN "done"
  ELSE IF status = 400 THEN (IF proceed THEN "create" ELSE "done")
  ELSE "create"

\* await axios.get(/issues/duplicates); window.confirm when a duplicate came.
\* The request is answered by the duplicate detector or fails (caught)
FormCheck(a) ==
  /\ client.pc = "idle"
  /\ \E answered \in BOOLEAN, chooseUpvote \in BOOLEAN :
       LET dup == IF answered
                  THEN findDuplicate(FormBody.category, FormBody.latitude,
                                     FormThreshold, storePool).id
                  ELSE 0
           choice == dup # 0 /\ chooseUpvote
       IN  client' = [client EXCEPT !.pc = IF choice THEN "upvote" ELSE "create",
                                    !.actor = a, !.checked = TRUE,
                                    !.duplicate = dup, !.chooseUpvote = choice]
  /\ UNCHANGED <<issues, active, now, req, budget, last, okUp, okDown, voters,
                 refresh, calc, trip>>

\* await axios.post(/issues/:id/upvote) with no response (err.response undefined)
FormUpvoteLost ==
  /\ client.pc = "upvote"
  /\ client' = [client EXCEPT !.upvoteStatus = 0, !.pc = afterUpvote(0, FALSE)]
  /\ UNCHANGED <<issues, active, now, req, budget, last, okUp, okDown, voters,
                 refresh, calc, trip>>

\* the form's upvote request reaches the server
FormUpvote(s) ==
  /\ client.pc = "upvote"
  /\ UpvoteFind(s, client.actor, client.duplicate)
  /\ client' = IF req'[s].pc = "loaded"
               THEN [client EXCEPT !.pc = "await", !.slot = s]
               ELSE [client EXCEPT !.upvoteStatus = 404, !.pc = afterUpvote(404, FALSE)]
  /\ UNCHANGED trip

\* the upvote handler's check; a 400 for the form's request is followed by
\* the second window.confirm
ClientUpvoteModify(s) ==
  /\ UpvoteModify(s)
  /\ IF client.pc = "await" /\ client.slot = s /\ req'[s].pc = "idle"
     THEN \E proceed \in BOOLEAN :
            client' = [client EXCEPT !.upvoteStatus = 400, !.proceed = proceed,
                                     !.slot = 0, !.pc = afterUpvote(400, proceed)]
     ELSE UNCHANGED client
  /\ UNCHANGED trip

ClientUpvoteSave(s) ==
  /\ UpvoteSave(s)
  /\ IF client.pc = "await" /\ client.slot = s
     THEN client' = [client EXCEPT !.upvoteStatus = 200, !.slot = 0,
                                   !.pc = afterUpvote(200, FALSE)]
     ELSE UNCHANGED client
  /\ UNCHANGED trip

\* await issue.save() of POST /api/issues rejects; the handler answers 500
CreateFails(a) ==
  /\ last' = Response("create", a, 0, 500)
  /\ budget' = budget + 1
  /\ UNCHANGED <<issues, active, now, req, okUp, okDown, voters, refresh, calc>>

\* await onSubmit(submitData): handleSubmitIssue posts the form
FormCreate ==
  /\ client.pc = "create"
  /\ Submit(client.actor, FormBody) \/ CreateFails(client.actor)
  /\ client' = [client EXCEPT !.pc = "done", !.created = TRUE]
  /\ UNCHANGED trip

\* ---------------------------------------- IssuesList upvote button (App.js)
\* the user object the app keeps after login or checkAuthStatus
clientUser(a) == [id |-> a, role |-> userRole(a)]

\* obj?.field: a field the object does not have reads as undefined
lookup(obj, field) == IF field \in DOMAIN obj THEN obj[field] ELSE NoUser

\* onClick of the button on one of the citizen's own listed issues, and
\* handleUpvote up to the admission of its request
PressUpvote(s, a, i) ==
  /\ userRole(a) = "citizen"
  /\ issues[i].exists
  /\ issues[i].reporter = a
  /\ LET currentUser == clientUser(a)
         hasUpvoted == includes(issues[i].upvotedBy, lookup(currentUser, "userId"))
         isUpvoting == ~hasUpvoted
     IN  IF isUpvoting THEN UpvoteFind(s, a, i) ELSE UnupvoteFind(s, a, i)
  /\ UNCHANGED <<client, trip>>

\* ------------------------------------------------ GET /api/issues/:id
ReadIssue(a, i) ==
  /\ budget' = budget + 1
  /\ IF ~issues[i].exists
     THEN /\ last' = Response("read", a, i, 404)
          /\ UNCHANGED client
     ELSE IF userRole(a) = "citizen" /\ issues[i].reporter # a
     THEN /\ last' = Response("read", a, i, 403)
          /\ UNCHANGED client
     ELSE /\ last' = Response("read", a, i, 200)
          /\ client' = [client EXCEPT !.read =
                          [id |-> i, isOverdue |-> issues[i].isOverdue,
                           status |-> issues[i].status,
                           targetResolutionTime |-> issues[i].targetResolutionTime,
                           at |-> now]]
  /\ UNCHANGED <<issues, active, now, req, okUp, okDown, voters, refresh, calc, trip>>

\* ---------------------------------------------- GET /api/alerts/overdue
ReadAlerts(a) ==
  /\ budget' = budget + 1
  /\ IF ~requireAdmin(a)
     THEN /\ last' = Response("alerts", a, 0, 403)
          /\ UNCHANGED client
     ELSE /\ last' = Response("alerts", a, 0, 200)
          /\ client' = [client EXCEPT
                          !.alerts = {i \in IssueIds : /\ issues[i].exists
                                                       /\ issues[i].isOverdue
                                                       /\ issues[i].status \notin Terminal},
                          !.alertsAt = now]
  /\ UNCHANGED <<issues, active, now, req, okUp, okDown, voters, refresh, calc, trip>>

\* ------------------------------------------------------ specifications
\* a step of the server in which no browser session moves
ServerOnly == UNCHANGED <<client, trip>>

\* a request is served by the lowest idle slot
FreeSlot(s) == req[s].pc = "idle" /\ \A t \in Slots : req[t].pc = "idle" => s <= t

\* reported places: (category, latitude)
Places == {<<"trash", 3>>}
StatusActors == {"c1", "adm", "alice"}
EstimatedInputs == {NoDate, Hours(48)}

CreateAny == \E a \in Citizens, pl \in Places, p \in Priorities : Create(a, pl[1], p, pl[2])
CreateOne == \E p \in Priorities : Create("c1", "pothole", p, 1)
UpvoteFindAny == \E s \in Slots, a \in Citizens, i \in IssueIds :
                   FreeSlot(s) /\ UpvoteFind(s, a, i)
UpvoteModifyAny == \E s \in Slots : UpvoteModify(s)
UpvoteSaveAny == \E s \in Slots : UpvoteSave(s)
UnupvoteFindAny == \E s \in Slots, a \in Citizens, i \in IssueIds :
                     FreeSlot(s) /\ UnupvoteFind(s, a, i)
UnupvoteModifyAny == \E s \in Slots : UnupvoteModify(s)
UnupvoteSaveAny == \E s \in Slots : UnupvoteSave(s)
StatusUpdateAny ==
  \E s \in Slots, a \in StatusActors, i \in IssueIds, st \in StatusInputs,
     e \in EstimatedInputs, c \in BOOLEAN :
       FreeSlot(s) /\ StatusUpdate(s, a, i, st, e, c)
StatusCommentSaveAny == \E s \in Slots : StatusCommentSave(s)
ReopenAny == \E a \in StatusActors \cup Citizens, i \in IssueIds : Reopen(a, i)
SetActiveAny == \E u \in Authorities : SetActive(u)

\* a new request is admitted while fewer than n have been started
Admit(n) == budget < n

NextVote ==
  \/ Tick /\ ServerOnly
  \/ Admit(MaxVoteRequests) /\ CreateOne /\ ServerOnly
  \/ Admit(MaxVoteRequests) /\ UpvoteFindAny /\ ServerOnly
  \/ UpvoteModifyAny /\ ServerOnly
  \/ UpvoteSaveAny /\ ServerOnly
  \/ Admit(MaxVoteRequests) /\ UnupvoteFindAny /\ ServerOnly
  \/ UnupvoteModifyAny /\ ServerOnly
  \/ UnupvoteSaveAny /\ ServerOnly

Next ==
  \/ Tick /\ ServerOnly
  \/ Admit(MaxRequests) /\ CreateAny /\ ServerOnly
  \/ Admit(MaxRequests) /\ UpvoteFindAny /\ ServerOnly
  \/ UpvoteModifyAny /\ ServerOnly
  \/ UpvoteSaveAny /\ ServerOnly
  \/ Admit(MaxRequests) /\ UnupvoteFindAny /\ ServerOnly
  \/ UnupvoteModifyAny /\ ServerOnly
  \/ UnupvoteSaveAny /\ ServerOnly
  \/ Admit(MaxRequests) /\ StatusUpdateAny /\ ServerOnly
  \/ StatusCommentSaveAny /\ ServerOnly
  \/ Admit(MaxRequests) /\ ReopenAny /\ ServerOnly
  \/ Admit(MaxRequests) /\ SetActiveAny /\ ServerOnly

\* submitted bodies: the fields the form sends and two it does not
Bodies == [category : {"pothole"}, priority : {"high", "low", "urgent"}, latitude : {1},
           status : {"pending", "resolved"}, upvotes : {0, 7}]
RefreshActors == {"adm", "c1"}

SubmitAny == \E a \in {"c1"}, body \in Bodies : Submit(a, body)
RefreshFindAny == \E a \in RefreshActors : RefreshFind(a)

NextRefresh ==
  \/ Tick /\ ServerOnly
  \/ Admit(MaxRequests) /\ SubmitAny /\ ServerOnly
  \/ Admit(MaxRequests) /\ StatusUpdateAny /\ ServerOnly
  \/ StatusCommentSaveAny /\ ServerOnly
  \/ Admit(MaxRequests) /\ RefreshFindAny /\ ServerOnly
  \/ RefreshScan /\ ServerOnly
  \/ RefreshSave /\ ServerOnly

NextPure ==
  \/ ApplyDeadline /\ ServerOnly
  \/ ApplyOverdue /\ ServerOnly
  \/ ApplyResolver /\ ServerOnly
  \/ ApplyDetector /\ ServerOnly
  \/ ApplyTimer /\ ServerOnly

\* one citizen's browser session against the server: the report form, the
\* upvote button and the read requests
MaxClientRequests == 3
ReadActors == {"c1", "c2", "adm"}

FormCheckAny == \E a \in {"c1"} : FormCheck(a)
FormUpvoteAny == \E s \in Slots : FreeSlot(s) /\ FormUpvote(s)
ClientUpvoteModifyAny == \E s \in Slots : ClientUpvoteModify(s)
ClientUpvoteSaveAny == \E s \in Slots : ClientUpvoteSave(s)
PressUpvoteAny == \E s \in Slots, a \in Citizens, i \in IssueIds :
                    FreeSlot(s) /\ PressUpvote(s, a, i)
ReadIssueAny == \E a \in ReadActors, i \in IssueIds : ReadIssue(a, i)
ReadAlertsAny == \E a \in ReadActors : ReadAlerts(a)

NextClient ==
  \/ Tick /\ ServerOnly
  \/ FormCheckAny
  \/ FormUpvoteLost
  \/ Admit(MaxClientRequests) /\ FormUpvoteAny
  \/ ClientUpvoteModifyAny
  \/ ClientUpvoteSaveAny
  \/ Admit(MaxClientRequests) /\ FormCreate
  \/ Admit(MaxClientRequests) /\ PressUpvoteAny
  \/ Admit(MaxClientRequests) /\ ReadIssueAny
  \/ Admit(MaxClientRequests) /\ ReadAlertsAny

SpecClient == Init /\ [][NextClient]_vars

\* every request that writes a stored issue; a status change that goes on to
\* save a comment is remembered with the issue as it was stored before it
WriteStatuses == {"in-progress", "resolved"}
CommentActors == {"c1", "c2", "adm"}

StatusUpdateTracked ==
  \E s \in Slots, i \in IssueIds, st \in WriteStatuses, c \in BOOLEAN :
    /\ FreeSlot(s)
    /\ StatusUpdate(s, "adm", i, st, NoDate, c)
    /\ trip' = IF req'[s].pc = "comment"
               THEN [phase |-> "status", actor |-> "adm", id |-> i, slot |-> s,
                     before |-> issues[i]]
               ELSE trip
    /\ UNCHANGED client
StatusCommentSaveFailsAny == \E s \in Slots : StatusCommentSaveFails(s)
AddCommentAny == \E a \in CommentActors, i \in IssueIds : AddComment(a, i)
RefreshFindAdmin == RefreshFind("adm")

NextWrites ==
  \/ Tick /\ ServerOnly
  \/ Admit(MaxRequests) /\ UpvoteFindAny /\ ServerOnly
  \/ UpvoteModifyAny /\ ServerOnly
  \/ UpvoteSaveAny /\ ServerOnly
  \/ Admit(MaxRequests) /\ UnupvoteFindAny /\ ServerOnly
  \/ UnupvoteModifyAny /\ ServerOnly
  \/ UnupvoteSaveAny /\ ServerOnly
  \/ Admit(MaxRequests) /\ StatusUpdateTracked
  \/ StatusCommentSaveAny /\ ServerOnly
  \/ StatusCommentSaveFailsAny /\ ServerOnly
  \/ Admit(MaxRequests) /\ AddCommentAny /\ ServerOnly
  \/ Admit(MaxRequests) /\ RefreshFindAdmin /\ ServerOnly
  \/ RefreshScan /\ ServerOnly
  \/ RefreshSave /\ ServerOnly

\* the requests that write a stored issue, on a seeded database
SpecWrites == InitSeeded /\ [][NextWrites]_vars

\* the vote handlers, with the history of an upvote that is admitted while no
\* request is in flight and is directly followed by the same actor's
\* un-upvote; any other request admitted in between ends the history
MaxTripRequests == 5

TripUpvoteFind ==
  \E s \in Slots, a \in Citizens, i \in IssueIds :
    /\ FreeSlot(s)
    /\ UpvoteFind(s, a, i)
    /\ trip' = IF AllIdle /\ issues[i].exists /\ ~includes(issues[i].upvotedBy, a)
               THEN [phase |-> "up", actor |-> a, id |-> i, slot |-> s,
                     before |-> issues[i]]
               ELSE NoTrip
    /\ UNCHANGED client
TripUpvoteSave ==
  \E s \in Slots :
    /\ UpvoteSave(s)
    /\ trip' = IF trip.phase = "up" THEN [trip EXCEPT !.phase = "upvoted"] ELSE trip
    /\ UNCHANGED client
TripUnupvoteFind ==
  \E s \in Slots, a \in Citizens, i \in IssueIds :
    /\ FreeSlot(s)
    /\ UnupvoteFind(s, a, i)
    /\ trip' = IF trip.phase = "upvoted" /\ a = trip.actor /\ i = trip.id
               THEN [trip EXCEPT !.phase = "down", !.slot = s]
               ELSE NoTrip
    /\ UNCHANGED client
TripUnupvoteSave ==
  \E s \in Slots :
    /\ UnupvoteSave(s)
    /\ trip' = IF trip.phase = "down"
               THEN (IF last'.code = 200 THEN [trip EXCEPT !.phase = "back"] ELSE NoTrip)
               ELSE trip
    /\ UNCHANGED client

NextTrip ==
  \/ Admit(MaxTripRequests) /\ TripUpvoteFind
  \/ UpvoteModifyAny /\ ServerOnly
  \/ TripUpvoteSave
  \/ Admit(MaxTripRequests) /\ TripUnupvoteFind
  \/ UnupvoteModifyAny /\ ServerOnly
  \/ TripUnupvoteSave

\* the vote handlers on a seeded database
SpecTrip == InitSeeded /\ [][NextTrip]_vars

\* creation, status changes and the batch overdue refresh
SpecRefresh == Init /\ [][NextRefresh]_vars

\* the deadline policy, the overdue evaluator, the assignment resolver, the
\* duplicate detector and the client's timer, each applied once to arguments
\* drawn from bounded sets
SpecPure == InitPure /\ [][NextPure]_vars

\* the vote handlers of a server started on an empty database
SpecVote == InitEmpty /\ [][NextVote]_vars

\* the server, the seed and the reopen operation
Spec == Init /\ [][Next]_vars

\* ================================================================ claims
Stored == {i \in IssueIds : issues[i].exists}
Upvoters(i) == SeqToSet(issues[i].upvotedBy)

\* C1: in every reachable state the stored upvote count equals the number of
\* identities in the upvoter set, and equals the number of successful upvotes
\* minus the number of successful un-upvotes.
UpvoteCountMatchesSet ==
  \A i \in Stored :
    /\ issues[i].upvotes = Len(issues[i].upvotedBy)
    /\ issues[i].upvotes = okUp[i] - okDown[i]

\* C2: once the concurrent vote requests of distinct actors have all been
\* answered, every successful one is reflected in the stored issue: the upvoter
\* set holds exactly the actors whose last successful request was an upvote and
\* the count is their number.
ConcurrentVotesBothReflected ==
  AllIdle => \A i \in Stored :
               /\ Upvoters(i) = voters[i]
               /\ issues[i].upvotes = Cardinality(voters[i])

\* C3: no identity appears twice in an issue's upvoter list, also when the same
\* actor's upvote requests are processed concurrently.
NoDuplicateUpvoter ==
  \A i \in Stored : Len(issues[i].upvotedBy) = Cardinality(Upvoters(i))

\* C4: an issue whose status is resolved or rejected has its stored overdue
\* flag equal to false; in particular a status change to resolved or rejected
\* leaves the flag false, also on an issue whose flag was true.
TerminalNotOverdue ==
  [][\A s \in Slots, a \in Admins, i \in Stored, st \in Terminal,
        e \in EstimatedInputs, c \in BOOLEAN :
       StatusUpdate(s, a, i, st, e, c)
         => (issues'[i].status \in Terminal => ~issues'[i].isOverdue)]_vars

\* C5: the stored deadline of every issue is at least 4 hours after its
\* creation timestamp, for every priority and upvote count.
DeadlineAtLeastFourHours ==
  \A i \in Stored : issues[i].targetResolutionTime >= issues[i].createdAt + Hours(4)

\* an upvote has been saved and has pulled the deadline of a stored issue below
\* the base window of its priority
DeadlineTightenedByUpvote ==
  /\ last.op = "upvote"
  /\ last.code = 200
  /\ last.id \in Stored
  /\ issues[last.id].upvotes >= 1
  /\ issues[last.id].targetResolutionTime
       < issues[last.id].createdAt + Hours(baseHours(issues[last.id].priority))

\* C6: the stored deadline always equals the deadline policy applied to the
\* stored priority, the stored upvote count and the creation timestamp.
DeadlineMatchesUpvotes ==
  \A i \in Stored :
    issues[i].targetResolutionTime =
      calculateTargetResolutionTime(issues[i].upvotes, issues[i].priority, issues[i].createdAt)

AllowedMoves ==
  {<<"pending", "in-progress">>, <<"pending", "resolved">>, <<"pending", "rejected">>,
   <<"in-progress", "resolved">>, <<"in-progress", "rejected">>}

\* C7: a status-change request by an administrator is applied only for the
\* moves pending -> in-progress | resolved | rejected and in-progress ->
\* resolved | rejected; a request for any other move, out of resolved or
\* rejected or to a target outside the four statuses included, is rejected with
\* a validation error and leaves the stored issue unchanged.
StatusChangeOnlyAllowedMoves ==
  [][\A s \in Slots, a \in Admins, i \in Stored, st \in StatusInputs,
        e \in EstimatedInputs, c \in BOOLEAN :
       (/\ StatusUpdate(s, a, i, st, e, c)
        /\ st # issues[i].status
        /\ <<issues[i].status, st>> \notin AllowedMoves)
         => (issues'[i] = issues[i] /\ last' = Response("status", a, i, 400))]_vars

\* C8: a status-change request on a stored issue is applied if and only if the
\* requesting actor is an administrator or the authority assigned to the issue.
StatusChangeByAdminOrAssignee ==
  [][\A s \in Slots, a \in StatusActors, i \in Stored, st \in StatusInputs,
        e \in EstimatedInputs, c \in BOOLEAN :
       StatusUpdate(s, a, i, st, e, c)
         => ((last' # Response("status", a, i, 403) /\ issues'[i].status = st)
               <=> (userRole(a) = "admin" \/ a = issues[i].assignee))]_vars

\* C9: a reopen request succeeds only when the issue is resolved or rejected
\* and the actor is its original reporter; every other combination is answered
\* with a conflict error and leaves the stored issue unchanged.
ReopenOnlyReporterFromTerminal ==
  [][\A a \in Users, i \in Stored :
       Reopen(a, i)
         => LET permitted == issues[i].status \in Terminal /\ a = issues[i].reporter
            IN  /\ last'.code = 200 => permitted
                /\ ~permitted => (last' = Response("reopen", a, i, 409) /\ issues' = issues)]_vars

\* a reopen by someone other than the reporter was refused on a terminal issue
ReopenRefusedForNonReporter ==
  /\ last.op = "reopen"
  /\ last.code = 409
  /\ last.id \in Stored
  /\ issues[last.id].status \in Terminal
  /\ last.actor # issues[last.id].reporter

\* position of an authority in the store's scan order
RECURSIVE indexOf(_, _)
indexOf(seq, x) == IF Head(seq) = x THEN 1 ELSE 1 + indexOf(Tail(seq), x)

\* the active authorities of exactly that department that have a location
Eligible(department, act) ==
  {u \in Authorities : u \in act /\ userDepartment(u) = department /\ hasCoordinates(u)}

\* the eligible authority at minimum distance, the first scanned among equals
NearestEligible(department, latitude, act) ==
  IF Eligible(department, act) = {} THEN NoUser
  ELSE CHOOSE u \in Eligible(department, act) :
         \A v \in Eligible(department, act) :
           LET du == Abs(userLatitude(u) - latitude)
               dv == Abs(userLatitude(v) - latitude)
           IN  du < dv \/ (du = dv /\ indexOf(AuthOrder, u) <= indexOf(AuthOrder, v))

RepeatedVoteRejected ==
  [][\A s \in Slots :
       LET r == req[s]
           present == r.actor \in SeqToSet(r.orig.upvotedBy)
       IN  /\ (UpvoteModify(s) /\ present)
                => /\ last' = Response("upvote", r.actor, r.id, 400)
                   /\ issues' = issues
                   /\ req'[s] = IdleReq
           /\ (UnupvoteModify(s) /\ ~present)
                => /\ last' = Response("unupvote", r.actor, r.id, 400)
                   /\ issues' = issues
                   /\ req'[s] = IdleReq]_vars

\* a second upvote by a listed upvoter was refused after somebody else's
\* upvote had been stored behind theirs
SecondUpvoteRefused ==
  /\ last.op = "upvote"
  /\ last.code = 400
  /\ last.id \in Stored
  /\ Len(issues[last.id].upvotedBy) = 2
  /\ issues[last.id].upvotedBy[2] = last.actor
  /\ issues[last.id].upvotes = 2

\* C12: a batch overdue refresh that directly follows another one, with no
\* time elapsed and no other operation since the first started, writes no
\* issue: its updated count is 0.
SecondRefreshWritesNothing ==
  [][(/\ RefreshScan
      /\ refresh'.pc = "idle"
      /\ refresh.again
      /\ refresh'.clean)
       => refresh'.updatedCount = 0]_vars

\* a refresh that directly followed another has finished with count 0 while an
\* open issue carries the overdue flag an earlier run wrote
RefreshRepeated ==
  /\ refresh.pc = "idle"
  /\ refresh.again
  /\ refresh.clean
  /\ refresh.updatedCount = 0
  /\ last = Response("refresh", last.actor, 0, 200)
  /\ \E i \in Stored : issues[i].isOverdue /\ issues[i].status \notin Terminal

\* C13: the batch overdue refresh never writes an issue whose status is
\* resolved or rejected (and leaves every pending or in-progress issue with
\* its flag equal to now > deadline, writing exactly the issues whose flag
\* differed).
RefreshWritesOnlyOpenIssues ==
  [][RefreshSave => issues[refresh.pending.id].status \notin Terminal]_vars

\* max(base x (100 - min(2u, 50)) / 100, 4) hours, in hundredths of an hour
ExactHours(priority, u) ==
  LET base == CASE priority = "high" -> 24
                [] priority = "medium" -> 72
                [] priority = "low" -> 168
                [] OTHER -> 72
      reduced == base * (100 - (IF 2 * u < 50 THEN 2 * u ELSE 50))
  IN  IF reduced > 400 THEN reduced ELSE 400

\* C14: for every priority and upvote count the computed deadline is the
\* creation timestamp plus exactly max(base x (100 - min(2u, 50)) / 100, 4)
\* hours, fractional hours included (high with 1 upvote: creation + 23.52 h).
DeadlineExactHours ==
  (calc.fn = "deadline" /\ calc.done)
    => calc.deadline = calc.createdAt + ExactHours(calc.priority, calc.upvotes)

\* C15: for a fixed priority and creation timestamp the computed deadline
\* does not increase with the upvote count, and it is the same for all counts
\* of 25 and more.
DeadlineMonotoneInUpvotes ==
  (calc.fn = "deadline" /\ calc.done)
    => /\ calc.upvotes <= calc.more => calc.deadlineMore <= calc.deadline
       /\ (calc.upvotes >= 25 /\ calc.more >= 25) => calc.deadlineMore = calc.deadline

\* the deadlines for 24, for 25 and for 100 upvotes have been computed: the
\* 25th upvote still shortened the window, the 100th does not
DeadlineCapReached ==
  /\ calc.fn = "deadline"
  /\ calc.done
  /\ calc.priority = "low"
  /\ calc.upvotes = 25
  /\ calc.more = 100
  /\ calc.deadline = calc.deadlineMore
  /\ calc.deadline < calculateTargetResolutionTime(24, calc.priority, calc.createdAt)

\* C16: the overdue evaluator returns false for every deadline and current
\* time when the status is resolved or rejected, and otherwise true exactly
\* when the current time is strictly later than the deadline.
OverdueEvaluatorRule ==
  (calc.fn = "overdue" /\ calc.done)
    => calc.overdue = (calc.status \notin {"resolved", "rejected"} /\ calc.clock > calc.target)

\* an open issue was evaluated at the very instant of its deadline
EvaluatedAtDeadline ==
  /\ calc.fn = "overdue"
  /\ calc.done
  /\ calc.status = "in-progress"
  /\ calc.clock = calc.target
  /\ ~calc.overdue

\* C17: every issue stored by the create operation starts with status
\* pending, upvote count 0, an empty upvoter set, overdue flag false and the
\* deadline the policy gives for its priority, 0 upvotes and its creation
\* timestamp, whatever status or upvote count the request body carries.
CreatedIssueStartsFresh ==
  [][\A i \in IssueIds :
       (~issues[i].exists /\ issues'[i].exists)
         => /\ issues'[i].status = "pending"
            /\ issues'[i].upvotes = 0
            /\ issues'[i].upvotedBy = <<>>
            /\ ~issues'[i].isOverdue
            /\ issues'[i].priority \in Priorities
            /\ issues'[i].createdAt = now
            /\ issues'[i].targetResolutionTime =
                 calculateTargetResolutionTime(0, issues'[i].priority, now)]_vars

\* a submitted issue has just been stored, later than the server's start
IssueJustCreated ==
  /\ last.op = "create"
  /\ last.code = 201
  /\ last.id \in Stored
  /\ now > 0
  /\ issues[last.id].createdAt = now
  /\ issues[last.id].status = "pending"
  /\ issues[last.id].upvotes = 0
  /\ issues[last.id].targetResolutionTime =
       now + Hours(baseHours(issues[last.id].priority))

\* C18: given a department and coordinates, the assignment resolver returns
\* an authority that is active, has role authority, belongs to exactly that
\* department and has coordinates, at minimum distance among all such
\* authorities and the first in scan order among equidistant ones; it returns
\* none exactly when there is no such authority.
ResolverPicksNearest ==
  (calc.fn = "nearest" /\ calc.done /\ calc.department # "")
    => LET pool == {u \in Users : /\ userRole(u) = "authority"
                                  /\ u \in calc.act
                                  /\ userDepartment(u) = calc.department
                                  /\ hasCoordinates(u)}
           dist(u) == Abs(userLatitude(u) - calc.latitude) * 100
       IN  /\ calc.nearest = NoUser <=> pool = {}
           /\ calc.nearest # NoUser =>
                /\ calc.nearest \in pool
                /\ \A v \in pool : dist(calc.nearest) <= dist(v)
                /\ \A v \in pool : dist(v) = dist(calc.nearest)
                      => indexOf(AuthOrder, calc.nearest) <= indexOf(AuthOrder, v)

\* two active authorities of the department were equally far and the one
\* scanned first was returned
ResolverBrokeTie ==
  /\ calc.fn = "nearest"
  /\ calc.done
  /\ calc.department = "Public Works"
  /\ calc.latitude = 2
  /\ {"alice", "bob"} \subseteq calc.act
  /\ calc.nearest = "alice"

\* C19: the assignment resolver never returns an authority of a department
\* other than its department argument, an empty or missing argument included
\* (so that an assigned authority always belongs to the department mapped
\* from the issue's category).
ResolverStaysInDepartment ==
  (calc.fn = "nearest" /\ calc.done /\ calc.nearest # NoUser)
    => userDepartment(calc.nearest) = calc.department

\* C20: the duplicate detector returns an existing issue only if it has the
\* category asked for, is not resolved or rejected and lies within the
\* threshold; among such issues it returns the one at minimum distance, the
\* most recently created among equidistant ones, together with its distance,
\* and no duplicate when none qualifies.
DetectorReturnsNearestOpenMatch ==
  (calc.fn = "duplicate" /\ calc.done)
    => LET dist(k) == Abs(calc.pool[k].latitude - calc.latitude) * 100
           cand == {k \in 1..Len(calc.pool) :
                      /\ calc.pool[k].category = calc.category
                      /\ calc.pool[k].status \notin {"resolved", "rejected"}
                      /\ dist(k) <= calc.threshold}
           dup == calc.duplicate
       IN  /\ dup.id = 0 <=> cand = {}
           /\ dup.id # 0 =>
                /\ dup.id \in cand
                /\ dup.distanceMeters = dist(dup.id)
                /\ \A k \in cand : dist(dup.id) <= dist(k)
                /\ \A k \in cand : dist(k) = dist(dup.id) => k <= dup.id

\* an open issue of another category lay within the threshold, and the
\* issue of the category asked for, 100 m away, was returned
DuplicateFoundAmongOthers ==
  /\ calc.fn = "duplicate"
  /\ calc.done
  /\ calc.category = "pothole"
  /\ Len(calc.pool) >= 2
  /\ calc.pool[1].category = "trash"
  /\ calc.pool[1].status = "pending"
  /\ calc.pool[1].latitude = 0
  /\ calc.duplicate = [id |-> 2, distanceMeters |-> 100]

\* C22: after a successful create, the stored issue's assignee is the nearest
\* active authority with coordinates of the issue's department when there is
\* one, and absent otherwise.
CreateAssignsNearest ==
  [][\A i \in IssueIds :
       (~issues[i].exists /\ issues'[i].exists)
         => issues'[i].assignee =
              NearestEligible(issues'[i].department, issues'[i].latitude, active)]_vars

\* the step of an administrator's status-change request on issue i up to its
\* findByIdAndUpdate
StatusApplied(i) ==
  /\ budget' = budget + 1
  /\ last'.op = "status" \/ req' # req
  /\ \E s \in Slots, a \in Admins, e \in EstimatedInputs, c \in BOOLEAN :
       StatusUpdate(s, a, i, issues'[i].status, e, c)

\* C24: a successful status change to resolved sets the resolved timestamp to
\* the time of the change; a status change to any other status leaves the
\* resolved timestamp as it was.
ResolvedAtOnlyOnResolve ==
  [][\A i \in Stored :
       StatusApplied(i)
         => IF issues'[i].status = "resolved"
            THEN issues'[i].resolvedAt = now
            ELSE issues'[i].resolvedAt = issues[i].resolvedAt]_vars

\* an issue was resolved a day after the server started and carries that time,
\* not the time of its creation, as its resolved timestamp
ResolvedLater ==
  /\ last.op = "status"
  /\ last.code = 200
  /\ last.id \in Stored
  /\ now > 0
  /\ issues[last.id].createdAt = 0
  /\ issues[last.id].status = "resolved"
  /\ issues[last.id].resolvedAt = now

\* the step that saves the comment of a status-change request on issue i
CommentSaved(i) ==
  \E s \in Slots : /\ req[s].pc = "comment"
                   /\ req[s].id = i
                   /\ req'[s].pc = "idle"

\* C25: a status-change request, with or without an estimated-resolution
\* timestamp and with or without a comment, leaves the computed deadline, the
\* upvote count and the upvoter set of the issue unchanged; the estimated
\* resolution is either left as it was or set to the timestamp given.
StatusChangeKeepsDeadlineAndVotes ==
  [][\A i \in Stored :
       (StatusApplied(i) \/ CommentSaved(i))
         => /\ issues'[i].targetResolutionTime = issues[i].targetResolutionTime
            /\ issues'[i].upvotes = issues[i].upvotes
            /\ issues'[i].upvotedBy = issues[i].upvotedBy
            /\ \/ issues'[i].estimatedResolution = issues[i].estimatedResolution
               \/ /\ StatusApplied(i)
                  /\ issues'[i].estimatedResolution \in EstimatedInputs \ {NoDate}]_vars

\* an upvoted issue was moved to in-progress with an estimated resolution that
\* differs from its deadline, and the deadline is still the policy's
EstimateStoredBesideDeadline ==
  /\ last.op = "status"
  /\ last.code = 200
  /\ last.id \in Stored
  /\ issues[last.id].status = "in-progress"
  /\ issues[last.id].estimatedResolution = Hours(48)
  /\ issues[last.id].upvotes > 0
  /\ issues[last.id].targetResolutionTime # issues[last.id].estimatedResolution
  /\ issues[last.id].targetResolutionTime =
       calculateTargetResolutionTime(issues[last.id].upvotes, issues[last.id].priority,
                                     issues[last.id].createdAt)

\* C30: for the same deadline, status and current time, the client timer
\* marks an issue as overdue exactly when the server's overdue evaluator
\* returns true, the instant at which the current time equals the deadline
\* included (the overdue flag handed to the timer being the evaluator's).
TimerAgreesWithEvaluator ==
  (/\ calc.fn = "timer"
   /\ calc.done
   /\ calc.target # NoDate
   /\ calc.flag = checkIfOverdue(calc.target, calc.status, calc.clock))
    => calc.marked = checkIfOverdue(calc.target, calc.status, calc.clock)

\* C21: the duplicate check runs before the create request and never
\* prevents creation by itself: when handleSubmit has ended, the create
\* request was sent unless the reporter chose to upvote the duplicate and the
\* upvote succeeded, or the upvote was rejected with 400 and the reporter
\* declined to proceed; a failed duplicate check and any other failure of the
\* upvote lead to the create request.
FormCreatesUnlessUpvoted ==
  /\ (client.pc = "create" \/ client.created) => client.checked
  /\ client.pc = "done"
       => (client.created
             <=> ~(/\ client.chooseUpvote
                   /\ \/ client.upvoteStatus = 200
                      \/ client.upvoteStatus = 400 /\ ~client.proceed))

\* the reporter chose to upvote the duplicate, was told that they had upvoted
\* it already, proceeded, and the create request was sent and answered
FormProceededAfterRejectedUpvote ==
  /\ client.pc = "done"
  /\ client.duplicate \in Stored
  /\ client.chooseUpvote
  /\ client.upvoteStatus = 400
  /\ client.proceed
  /\ client.created
  /\ last.op = "create"
  /\ last.actor = client.actor

\* C26: every read that returns an issue's overdue state returns the value
\* of the overdue evaluator on the issue's deadline, the time of the read and
\* its status, also when no upvote, un-upvote or refresh ran since the
\* deadline passed.
ReadReturnsCurrentOverdue ==
  client.read.id # 0
    => client.read.isOverdue =
         checkIfOverdue(client.read.targetResolutionTime, client.read.status,
                        client.read.at)

\* C29: the upvote control of the citizen UI sends the remove-upvote request
\* when the issue's upvoter set holds the logged-in user and the upvote
\* request otherwise.
UpvoteControlToggles ==
  [][\A s \in Slots, a \in Citizens, i \in Stored :
       PressUpvote(s, a, i)
         => (req'[s].op = "unupvote" <=> a \in SeqToSet(issues[i].upvotedBy))]_vars

\* C23: when a store write of a status-change request fails and the request
\* is answered with an error, the stored issue is exactly as it was before the
\* request: neither the status nor the comment has been applied.
FailedStatusChangeWritesNothing ==
  [][\A s \in Slots :
       (/\ StatusCommentSaveFails(s)
        /\ trip.phase = "status"
        /\ trip.slot = s)
         => /\ last'.code = 500
            /\ issues'[trip.id] = trip.before]_vars

\* C27: the category, the reporter and the creation timestamp of a stored
\* issue never change under upvote, un-upvote, status change, comment or the
\* batch overdue refresh.
IdentityFieldsNeverChange ==
  [][\A i \in IssueIds :
       issues[i].exists
         => /\ issues'[i].exists
            /\ issues'[i].category = issues[i].category
            /\ issues'[i].reporter = issues[i].reporter
            /\ issues'[i].createdAt = issues[i].createdAt]_vars

\* a day after its creation the seeded issue has been upvoted, commented and
\* moved to in-progress, and it still carries its category, reporter and
\* creation timestamp
IssueWrittenByEveryKind ==
  /\ now > 0
  /\ issues[1].exists
  /\ issues[1].upvotedBy # <<>>
  /\ issues[1].isOverdue
  /\ issues[1].status = "in-progress"
  /\ issues[1].comments > 0
  /\ issues[1].category = SeedIssue.category
  /\ issues[1].reporter = SeedIssue.reporter
  /\ issues[1].createdAt = SeedIssue.createdAt

\* C28: for an issue the actor has not upvoted, a successful upvote by the
\* actor directly followed by the actor's successful un-upvote, with no other
\* operation in between, restores the upvote count, the upvoter set and the
\* deadline the issue had before.
UpvoteThenUnupvoteRestores ==
  trip.phase = "back"
    => /\ issues[trip.id].upvotes = trip.before.upvotes
       /\ issues[trip.id].upvotedBy = trip.before.upvotedBy
       /\ issues[trip.id].targetResolutionTime = trip.before.targetResolutionTime
====
